---- MODULE Spec2Model ----
(***************************************************************************)
(* A model of src/main.py: process_query and the three outbound calls it   *)
(* makes (the hosted model, the CRM pipeline list, the CRM opportunity     *)
(* search).  Python values are tagged records [t |-> tag, v |-> payload];  *)
(* a string is the sequence of its characters, so that str.lower() and     *)
(* the substring test "x in y" are computed, not assumed.                  *)
(***************************************************************************)
EXTENDS Integers, Sequences, FiniteSets, TLC

\* ------------------------------------------------------------------ bounds
MaxPipelines == 2   \* pipelines in one CRM answer
MaxOpps      == 2   \* opportunities in one CRM answer
MaxTasks     == 3   \* tasks of one opportunity
MaxTerms     == 2   \* terms of an opportunity_name list
MaxLimit     == 3   \* largest task_limit

\* ------------------------------------------------------------ Python values
None      == [t |-> "none"]
Absent    == [t |-> "absent"]          \* a key a dict does not have
Unset     == [t |-> "unset"]           \* a local not assigned yet
PyStr(s)  == [t |-> "str", v |-> s]
PyInt(n)  == [t |-> "int", v |-> n]
PyBool(b) == [t |-> "bool", v |-> b]
PyList(l) == [t |-> "list", v |-> l]
Raise(e)  == [t |-> "raise", v |-> e]  \* an exception leaving a function

\* bool(x) of a Python value
Truthy(x) ==
  CASE x.t = "str"  -> Len(x.v) > 0
    [] x.t = "list" -> Len(x.v) > 0
    [] x.t = "int"  -> x.v # 0
    [] x.t = "bool" -> x.v
    [] OTHER        -> FALSE

\* d.get(k) and d.get(k, default) of a dict d (a record of its possible keys)
Get(d, k) == IF d[k].t = "absent" THEN None ELSE d[k]
GetOr(d, k, default) == IF d[k].t = "absent" THEN default ELSE d[k]

\* str.lower(), character by character
LowerChar(c) ==
  CASE c = "A" -> "a" [] c = "C" -> "c" [] c = "D" -> "d" [] c = "I" -> "i"
    [] c = "P" -> "p" [] c = "S" -> "s" [] c = "T" -> "t" [] OTHER -> c
Lower(s) == [i \in 1..Len(s) |-> LowerChar(s[i])]

\* Python's "x in y" for strings: x is a contiguous substring of y
Contains(x, y) ==
  \E i \in 1..(Len(y) + 1) :
    /\ i + Len(x) - 1 <= Len(y)
    /\ SubSeq(y, i, i + Len(x) - 1) = x

\* Python's s[:n]
SliceTo(s, n) ==
  IF n >= 0 THEN SubSeq(s, 1, IF n < Len(s) THEN n ELSE Len(s))
  ELSE SubSeq(s, 1, IF Len(s) + n > 0 THEN Len(s) + n ELSE 0)

\* a list comprehension [x for x in s if ...]: the elements of s at the
\* indices in keep, in the order of s
RECURSIVE SelectFrom(_, _, _)
SelectFrom(s, keep, i) ==
  IF i > Len(s) THEN <<>>
  ELSE (IF i \in keep THEN <<s[i]>> ELSE <<>>) \o SelectFrom(s, keep, i + 1)
Comprehension(s, keep) == SelectFrom(s, keep, 1)

\* all sequences over S of length 0..n
SeqsUpTo(S, n) == UNION {[1..k -> S] : k \in 0..n}

\* ------------------------------------------------------- the hosted model
\* The text of a model response is a sequence of tokens: a code fence ```,
\* the word json, white space, a JSON object, or anything else.
Fence    == [k |-> "fence"]
JsonWord == [k |-> "json"]
Ws       == [k |-> "ws"]
Junk     == [k |-> "junk"]
Obj(d)   == [k |-> "obj", d |-> d]

\* the filter object: its four possible keys, each Absent or a value
Dict(pn, on, tl, st) ==
  [pipeline_name |-> pn, opportunity_name |-> on, task_limit |-> tl, status |-> st]
PyDict(d) == [t |-> "dict", d |-> d]
EmptyDict == Dict(Absent, Absent, Absent, Absent)

\* str.strip()
RECURSIVE LStrip(_)
LStrip(s) == IF s # <<>> /\ Head(s) = Ws THEN LStrip(Tail(s)) ELSE s
RECURSIVE RStrip(_)
RStrip(s) ==
  IF s # <<>> /\ s[Len(s)] = Ws THEN RStrip(SubSeq(s, 1, Len(s) - 1)) ELSE s
Strip(s) == RStrip(LStrip(s))

\* str.replace(pat, ""): every non-overlapping occurrence, left to right
RECURSIVE Remove(_, _)
Remove(s, pat) ==
  IF Len(s) < Len(pat) THEN s
  ELSE IF SubSeq(s, 1, Len(pat)) = pat
       THEN Remove(SubSeq(s, Len(pat) + 1, Len(s)), pat)
       ELSE <<Head(s)>> \o Remove(Tail(s), pat)

\* json.loads: the text must be one JSON value (white space around it is allowed)
json_loads(s) ==
  IF Len(Strip(s)) = 1 /\ Strip(s)[1].k = "obj"
  THEN PyDict(Strip(s)[1].d)
  ELSE Raise("JSONDecodeError")

\* json_str without the removal of ```json
json_str_fence_only(text) == Strip(Remove(Strip(text), <<Fence>>))

\* main.py:147
json_str(text) == Strip(Remove(Remove(Strip(text), <<Fence, JsonWord>>), <<Fence>>))

\* main.py:150-153: the handler evaluates {{}}, a set display holding a dict,
\* and a dict is unhashable
ExceptHandler == Raise("TypeError")

\* main.py:106-153.  g.get_model is the outcome of genai.get_model (a model,
\* a falsy value, or an exception: the call is outside the try); g.generate
\* is the outcome of generate_content (an exception or the response text).
get_interpretation_from_gemini(g) ==
  IF g.get_model = "raises" THEN Raise("get_model")
  ELSE IF g.get_model = "falsy" THEN None
  ELSE IF g.generate.t = "raise" THEN ExceptHandler
  ELSE IF json_loads(json_str(g.generate.v)).t = "raise" THEN ExceptHandler
  ELSE json_loads(json_str(g.generate.v))

\* ------------------------------------------------------------------ the CRM
\* get_all_pipelines answering [] for a failed GET, as get_ghl_opportunities does
get_all_pipelines_empty_on_failure(answer) ==
  IF answer.t = "failure" THEN PyList(<<>>) ELSE PyList(answer.v)

\* main.py:35-61: the pipelines of the answer, or None when the GET fails
get_all_pipelines(answer) ==
  IF answer.t = "failure" THEN None ELSE PyList(answer.v)

\* get_ghl_opportunities answering None for a failed GET, as get_all_pipelines does
get_ghl_opportunities_none_on_failure(answer) ==
  IF answer.t = "failure" THEN None ELSE PyList(answer.v)

\* main.py:63-102: the opportunities of the answer, or [] when the GET fails
get_ghl_opportunities(answer) ==
  IF answer.t = "failure" THEN PyList(<<>>) ELSE PyList(answer.v)

\* ------------------------------------------------------------ process_query
\* main.py:21, "Client Software Development Pipeline", written by its initials
DEFAULT_PIPELINE_NAME == <<"C", "S", "D", "P">>
Open == <<"o", "p", "e", "n">>

\* one element of output_lines: the message and the values formatted into it
Line1(k) == <<k>>
Line2(k, a) == <<k, a>>
Line3(k, a, b) == <<k, a, b>>

\* main.py:173-178
pipeline_name_of(d) ==
  IF Truthy(Get(d, "pipeline_name")) THEN d.pipeline_name
  ELSE PyStr(DEFAULT_PIPELINE_NAME)

\* pipeline_id_of with a substring test in place of the dict lookup
pipeline_id_of_substring(pipelines, name) ==
  LET hits == {i \in 1..Len(pipelines) :
                 Contains(Lower(name.v), Lower(pipelines[i].name.v))}
  IN IF hits = {} THEN None
     ELSE pipelines[CHOOSE i \in hits : \A j \in hits : j <= i].id

\* main.py:189-191: the dict comprehension keeps, for a lowercased name, the
\* id of the last pipeline that has it; .get answers None for a missing key
pipeline_id_of(pipelines, name) ==
  LET hits == {i \in 1..Len(pipelines) : Lower(pipelines[i].name.v) = Lower(name.v)}
  IN IF hits = {} THEN None
     ELSE pipelines[CHOOSE i \in hits : \A j \in hits : j <= i].id

\* main.py:197
available_names(pipelines) == [i \in 1..Len(pipelines) |-> Get(pipelines[i], "name")]

\* main.py:210-213
opp_names_of(v) == IF v.t = "list" THEN v.v ELSE <<v>>

\* main.py:216
lowercase_opp_names(names) == [i \in 1..Len(names) |-> Lower(names[i].v)]

\* filtered_opps with all(...) in place of any(...)
filtered_opps_all(opps, lnames) ==
  Comprehension(opps, {i \in 1..Len(opps) :
    \A j \in 1..Len(lnames) :
      Contains(lnames[j], Lower(GetOr(opps[i], "name", PyStr(<<>>)).v))})

\* main.py:223
filtered_opps(opps, lnames) ==
  Comprehension(opps, {i \in 1..Len(opps) :
    \E j \in 1..Len(lnames) :
      Contains(lnames[j], Lower(GetOr(opps[i], "name", PyStr(<<>>)).v))})

\* main.py:245
incomplete_tasks(opp) ==
  Comprehension(opp.tasks.v, {i \in 1..Len(opp.tasks.v) :
    ~Truthy(Get(opp.tasks.v[i], "completed"))})

\* tasks_to_show with the slice one too long
tasks_to_show_off_by_one(incomplete, task_limit) ==
  IF Truthy(task_limit) THEN SliceTo(incomplete, task_limit.v + 1) ELSE incomplete

\* main.py:254-258
tasks_to_show(incomplete, task_limit) ==
  IF Truthy(task_limit) THEN SliceTo(incomplete, task_limit.v) ELSE incomplete

\* main.py:261-263
RECURSIVE task_lines(_)
task_lines(tasks) ==
  IF tasks = <<>> THEN <<>>
  ELSE << Line2("task", GetOr(Head(tasks), "title", PyStr(<<"N", "o", "T">>))),
          Line2("due", GetOr(Head(tasks), "dueDate", PyStr(<<"N", "/", "A">>))) >>
       \o task_lines(Tail(tasks))

\* has_section without the test of main.py:248
has_section_any_task(opp) == Truthy(Get(opp, "tasks"))

\* main.py:241-249: the opportunity gets a section
has_section(opp) == Truthy(Get(opp, "tasks")) /\ incomplete_tasks(opp) # <<>>

\* main.py:240-263, the body of the loop for one opportunity
opp_lines(opp, task_limit) ==
  IF ~has_section(opp) THEN <<>>
  ELSE << Line3("opportunity", GetOr(opp, "name", PyStr(<<"N", "/", "A">>)),
                GetOr(opp, "pipelineName", PyStr(<<"N", "/", "A">>))) >>
       \o (IF Truthy(task_limit) THEN <<Line2("showing_up_to", task_limit)>> ELSE <<>>)
       \o task_lines(tasks_to_show(incomplete_tasks(opp), task_limit))

\* main.py:240-263, the loop
RECURSIVE render_lines(_, _)
render_lines(opps, task_limit) ==
  IF opps = <<>> THEN <<>>
  ELSE opp_lines(Head(opps), task_limit) \o render_lines(Tail(opps), task_limit)

\* task_found initialised to True at main.py:235
task_found_initially_true(opps) == TRUE

\* main.py:235,251,266
task_found(opps) == \E i \in 1..Len(opps) : has_section(opps[i])

\* -------------------------------------------------------------------- state
VARIABLES
  user_query,      \* the argument of process_query
  gemini,          \* how the hosted model answers this run
  ghl_pipelines,   \* how the CRM answers GET /opportunities/pipelines
  ghl_search,      \* how the CRM answers GET /opportunities/search
  pc,              \* where process_query is
  calls,           \* the outbound calls made so far, in order
  interp, pipeline_name, all_pipelines, pipeline_id, status, opportunities,
  output_lines,    \* the locals of process_query
  result           \* what process_query gave its caller

env  == <<user_query, gemini, ghl_pipelines, ghl_search>>
vars == <<user_query, gemini, ghl_pipelines, ghl_search, pc, calls, interp,
          pipeline_name, all_pipelines, pipeline_id, status, opportunities,
          output_lines, result>>

Report(lines) == [t |-> "report", v |-> lines]   \* "\n".join(output_lines)
Exception(e)  == [t |-> "exception", v |-> e]

\* main.py:162-164
EmptyQuery ==
  /\ pc = "start"
  /\ user_query = <<>>
  /\ output_lines' = Append(output_lines, Line1("no_query"))
  /\ result' = Report(output_lines')
  /\ pc' = "returned"
  /\ UNCHANGED <<env, calls, interp, pipeline_name, all_pipelines, pipeline_id,
                 status, opportunities>>

\* Interpret without the early return of main.py:162-164
Interpret_unguarded ==
  /\ pc = "start"
  /\ calls' = Append(calls, <<"interpret">>)
  /\ LET r == get_interpretation_from_gemini(gemini) IN
       IF r.t = "raise"
       THEN /\ pc' = "raised"
            /\ result' = Exception(r.v)
            /\ UNCHANGED <<interp, output_lines>>
       ELSE /\ interp' = r
            /\ output_lines' = Append(output_lines, Line2("interpretation", r))
            /\ pc' = "interpreted"
            /\ UNCHANGED result
  /\ UNCHANGED <<env, pipeline_name, all_pipelines, pipeline_id, status, opportunities>>

\* main.py:166-169
Interpret ==
  /\ pc = "start"
  /\ user_query # <<>>
  /\ calls' = Append(calls, <<"interpret">>)
  /\ LET r == get_interpretation_from_gemini(gemini) IN
       IF r.t = "raise"
       THEN /\ pc' = "raised"
            /\ result' = Exception(r.v)
            /\ UNCHANGED <<interp, output_lines>>
       ELSE /\ interp' = r
            /\ output_lines' = Append(output_lines, Line2("interpretation", r))
            /\ pc' = "interpreted"
            /\ UNCHANGED result
  /\ UNCHANGED <<env, pipeline_name, all_pipelines, pipeline_id, status, opportunities>>

\* main.py:171-201
ResolvePipeline ==
  /\ pc = "interpreted"
  /\ IF interp.t # "dict"
     THEN \* main.py:173: None has no attribute get
          /\ pc' = "raised"
          /\ result' = Exception("AttributeError")
          /\ UNCHANGED <<calls, pipeline_name, all_pipelines, pipeline_id, output_lines>>
     ELSE LET name   == pipeline_name_of(interp.d)
              lines1 == output_lines
                        \o (IF Truthy(Get(interp.d, "pipeline_name")) THEN <<>>
                            ELSE <<Line2("using_default", PyStr(DEFAULT_PIPELINE_NAME))>>)
                        \o <<Line1("fetching_pipelines")>>
              fetched == get_all_pipelines(ghl_pipelines)
          IN
          /\ pipeline_name' = name
          /\ calls' = Append(calls, <<"pipelines">>)
          /\ all_pipelines' = fetched
          /\ IF fetched.t = "none"
             THEN /\ output_lines' = Append(lines1, Line1("failed_to_fetch_pipelines"))
                  /\ result' = Report(output_lines')
                  /\ pc' = "returned"
                  /\ UNCHANGED pipeline_id
             ELSE /\ pipeline_id' = pipeline_id_of(fetched.v, name)
                  /\ IF ~Truthy(pipeline_id')
                     THEN /\ output_lines' =
                               lines1 \o << Line2("pipeline_not_found", name),
                                            Line2("available_pipelines",
                                                  PyList(available_names(fetched.v))) >>
                          /\ result' = Report(output_lines')
                          /\ pc' = "returned"
                     ELSE /\ output_lines' =
                               Append(lines1, Line3("found_pipeline", name, pipeline_id'))
                          /\ pc' = "resolved"
                          /\ UNCHANGED result
  /\ UNCHANGED <<env, interp, status, opportunities>>

\* main.py:202-205
Fetch ==
  /\ pc = "resolved"
  /\ status' = GetOr(interp.d, "status", PyStr(Open))
  /\ calls' = Append(calls, <<"search", pipeline_id, status'>>)
  /\ opportunities' = get_ghl_opportunities(ghl_search)
  /\ pc' = "fetched"
  /\ UNCHANGED <<env, interp, pipeline_name, all_pipelines, pipeline_id,
                 output_lines, result>>

\* main.py:207-231
Filter ==
  /\ pc = "fetched"
  /\ IF Truthy(Get(interp.d, "opportunity_name"))
     THEN LET opp_names == opp_names_of(interp.d.opportunity_name)
              kept      == filtered_opps(opportunities.v, lowercase_opp_names(opp_names))
              lines1    == Append(output_lines, Line2("filtering_for", PyList(opp_names)))
          IN
          /\ opportunities' = PyList(kept)
          /\ IF kept = <<>>
             THEN /\ output_lines' = Append(lines1, Line1("no_opportunity_match"))
                  /\ result' = Report(output_lines')
                  /\ pc' = "returned"
             ELSE /\ output_lines' = lines1
                  /\ pc' = "filtered"
                  /\ UNCHANGED result
     ELSE /\ output_lines' = Append(output_lines, Line1("no_specific_opportunity"))
          /\ pc' = "filtered"
          /\ UNCHANGED <<opportunities, result>>
  /\ UNCHANGED <<env, calls, interp, pipeline_name, all_pipelines, pipeline_id, status>>

\* main.py:233-270
Render ==
  /\ pc = "filtered"
  /\ LET task_limit == Get(interp.d, "task_limit") IN
       output_lines' =
         Append(output_lines, Line1("tasks_header"))
         \o render_lines(opportunities.v, task_limit)
         \o (IF task_found(opportunities.v) THEN <<>>
             ELSE <<Line1("no_incomplete_tasks")>>)
  /\ result' = Report(output_lines')
  /\ pc' = "returned"
  /\ UNCHANGED <<env, calls, interp, pipeline_name, all_pipelines, pipeline_id,
                 status, opportunities>>

Next == EmptyQuery \/ Interpret \/ ResolvePipeline \/ Fetch \/ Filter \/ Render

\* --------------------------------------------------- the runs that are checked
Digit(i) == CASE i = 1 -> "1" [] i = 2 -> "2" [] i = 3 -> "3" [] i = 4 -> "4"
              [] i = 5 -> "5" [] OTHER -> "0"

\* pipeline names: the default, a case variant, a substring and a superstring
\* of it, "Internal Pipeline" and "Client Pipeline"
PipelineNames ==
  { DEFAULT_PIPELINE_NAME, <<"c", "s", "D", "P">>, <<"C", "S", "D">>,
    <<"C", "S", "D", "P", "s">>, <<"I", "P">>, <<"C", "P">> }

\* the CRM gives every pipeline its own non-empty id
Pipeline(i, n) == [id |-> PyStr(<<"#", Digit(i)>>), name |-> PyStr(n)]
PipelineLists(names, n) ==
  {[i \in 1..Len(ns) |-> Pipeline(i, ns[i])] : ns \in SeqsUpTo(names, n)}

\* opportunity names ("Project TechCEO", "project techceo - phase 2",
\* "Project A", "Tech Project") and the terms asked for
OppNames == { PyStr(<<"P", "T">>), PyStr(<<"p", "t", "2">>), PyStr(<<"P", "A">>),
              PyStr(<<"T", "P">>), Absent }
Terms == { <<"P", "T">>, <<"t", "2">>, <<"A">>, <<"x">>, <<>> }

Task(i, c) ==
  [title |-> PyStr(<<"t", Digit(i)>>),
   dueDate |-> IF i % 2 = 1 THEN PyStr(<<"d", Digit(i)>>) ELSE Absent,
   completed |-> c]
TaskLists(n) ==
  {[i \in 1..Len(cs) |-> Task(i, cs[i])] :
     cs \in SeqsUpTo({Absent, PyBool(FALSE), PyBool(TRUE)}, n)}
Opp(name, tasks) ==
  [name |-> name, pipelineName |-> PyStr(DEFAULT_PIPELINE_NAME), tasks |-> tasks]

Ok(v)   == [t |-> "ok", v |-> v]
Failure == [t |-> "failure"]

\* the model answers with the filter object d inside a ```json fence
Fenced(d)  == <<Fence, JsonWord, Ws, Obj(d), Ws, Fence>>
Answers(d) == [get_model |-> "ok", generate |-> Ok(Fenced(d))]

OnePipeline == Ok(<<Pipeline(1, DEFAULT_PIPELINE_NAME)>>)
OneOpp == Ok(<<Opp(PyStr(<<"P", "T">>), PyList(<<Task(1, PyBool(FALSE))>>))>>)

SampleDicts ==
  { EmptyDict,
    Dict(PyStr(<<"I", "P">>), Absent, Absent, Absent),
    Dict(Absent, PyStr(<<"P", "T">>), PyInt(1), Absent),
    Dict(Absent, Absent, Absent, PyStr(<<"w", "o", "n">>)) }
JunkTexts ==
  { <<Junk>>, <<>>, <<Fence, JsonWord, Ws, Junk, Ws, Fence>>, <<Obj(EmptyDict), Junk>> }
Texts ==
  JunkTexts
  \cup UNION {{ <<Obj(d)>>, Fenced(d), <<Fence, Obj(d), Fence>>, <<Ws, Obj(d), Ws>>,
                <<JsonWord, Obj(d)>> } : d \in SampleDicts}
Geminis ==
  {[get_model |-> "ok", generate |-> Ok(x)] : x \in Texts}
  \cup { [get_model |-> "ok",     generate |-> Raise("generate_content")],
         [get_model |-> "falsy",  generate |-> Raise("unused")],
         [get_model |-> "raises", generate |-> Raise("unused")] }

Limits == {Absent} \cup {PyInt(n) : n \in -1..MaxLimit}
OppNameFilters ==
  {Absent} \cup {PyStr(x) : x \in Terms}
  \cup {PyList(l) : l \in SeqsUpTo({PyStr(x) : x \in Terms}, MaxTerms)}
SampleTasks ==
  { Absent, PyList(<<>>), PyList(<<Task(1, PyBool(TRUE))>>),
    PyList(<<Task(1, PyBool(FALSE))>>),
    PyList(<<Task(1, Absent), Task(2, PyBool(TRUE)), Task(3, PyBool(FALSE))>>) }

\* every outcome of the three calls, on a few filter objects
ControlRuns ==
  /\ user_query \in {<<>>, <<"q">>}
  /\ gemini \in Geminis
  /\ ghl_pipelines \in {OnePipeline, Ok(<<Pipeline(1, <<"I", "P">>)>>), Ok(<<>>),
                         Failure}
  /\ ghl_search \in {OneOpp, Ok(<<>>), Failure}
\* every requested pipeline name against every pipeline list
ResolveRuns ==
  /\ user_query = <<"q">>
  /\ gemini \in {Answers(Dict(pn, Absent, Absent, Absent)) :
                    pn \in {Absent, PyStr(<<>>)} \cup {PyStr(n) : n \in PipelineNames}}
  /\ ghl_pipelines \in {Ok(l) : l \in PipelineLists(PipelineNames, MaxPipelines)}
  /\ ghl_search = OneOpp
\* every opportunity-name filter against every list of opportunity names
FilterRuns ==
  /\ user_query = <<"q">>
  /\ gemini \in {Answers(Dict(Absent, on, Absent, Absent)) : on \in OppNameFilters}
  /\ ghl_pipelines = OnePipeline
  /\ ghl_search \in
       {Ok([i \in 1..Len(ns) |-> Opp(ns[i], PyList(<<Task(1, PyBool(FALSE))>>))]) :
          ns \in SeqsUpTo(OppNames, MaxOpps)}
\* every task limit against every task list of one opportunity, and against
\* several opportunities
RenderRuns ==
  /\ user_query = <<"q">>
  /\ gemini \in {Answers(Dict(Absent, on, tl, Absent)) :
                    on \in {Absent, PyStr(<<"P">>)}, tl \in Limits}
  /\ ghl_pipelines = OnePipeline
  /\ ghl_search \in
       {Ok(<<Opp(PyStr(<<"P", "T">>), ts)>>) :
          ts \in {Absent} \cup {PyList(l) : l \in TaskLists(MaxTasks)}}
       \cup {Ok([i \in 1..Len(ts) |-> Opp(PyStr(<<"P", Digit(i)>>), ts[i])]) :
               ts \in SeqsUpTo(SampleTasks, MaxOpps)}

Init ==
  /\ ControlRuns \/ ResolveRuns \/ FilterRuns \/ RenderRuns
  /\ pc = "start"
  /\ calls = <<>>
  /\ interp = Unset
  /\ pipeline_name = Unset
  /\ all_pipelines = Unset
  /\ pipeline_id = Unset
  /\ status = Unset
  /\ opportunities = Unset
  /\ output_lines = <<>>
  /\ result = Unset

Spec == Init /\ [][Next]_vars

\* ------------------------------------------------------------------ claims
Last(s) == s[Len(s)]
Done == pc \in {"returned", "raised"}
\* the j-th smallest element of a set of indices
Nth(K, j) == CHOOSE i \in K : Cardinality({k \in K : k <= i}) = j
\* the kinds of the lines of the report
HasLine(k) == \E i \in 1..Len(output_lines) : output_lines[i][1] = k
SearchMade == \E i \in 1..Len(calls) : calls[i][1] = "search"

\* the model is unavailable, the model call raises, or the text is not JSON
InterpretationFails ==
  \/ gemini.get_model # "ok"
  \/ gemini.generate.t = "raise"
  \/ LET body == SelectSeq(gemini.generate.v, LAMBDA x : x \notin {Fence, JsonWord, Ws})
     IN Len(body) # 1 \/ body[1].k # "obj"

\* C1: for a non-empty query, whatever the three outbound calls do,
\* process_query ends by returning a text report: no exception reaches its caller.
C1_NeverRaises ==
  user_query # <<>> => /\ pc # "raised"
                       /\ result.t # "exception"

\* C2: when the model is unavailable or its text is not JSON, the run goes on
\* as with the empty filter object: the default pipeline name is looked up in
\* the pipeline list and the run ends with a report.
C2_DegradesToDefaults ==
  (user_query # <<>> /\ InterpretationFails /\ pc # "start") =>
    /\ pc # "raised"
    /\ pc # "interpreted" => /\ pipeline_name = PyStr(DEFAULT_PIPELINE_NAME)
                             /\ Len(calls) >= 2
                             /\ calls[2] = <<"pipelines">>
    /\ SearchMade => calls[3] = <<"search", pipeline_id, PyStr(Open)>>

\* two strings are equal ignoring case
SameIgnoringCase(a, b) ==
  /\ Len(a) = Len(b)
  /\ \A i \in 1..Len(a) : LowerChar(a[i]) = LowerChar(b[i])
\* a is a contiguous part of b
IsSubstring(a, b) ==
  \E off \in 0..Len(b) :
    /\ off + Len(a) <= Len(b)
    /\ \A k \in 1..Len(a) : b[off + k] = a[k]
\* the fetched pipelines whose name is the requested one, ignoring case
NameMatches ==
  {i \in 1..Len(all_pipelines.v) :
     SameIgnoringCase(all_pipelines.v[i].name.v, pipeline_name.v)}
NotFoundReport ==
  /\ pc = "returned"
  /\ result = Report(output_lines)
  /\ Len(output_lines) >= 2
  /\ output_lines[Len(output_lines) - 1] = <<"pipeline_not_found", pipeline_name>>
  /\ Last(output_lines) =
       <<"available_pipelines",
         PyList([i \in 1..Len(all_pipelines.v) |-> all_pipelines.v[i].name])>>

\* C3: once the pipeline list is fetched, the requested name resolves, to the
\* id of a pipeline of that name, iff some fetched pipeline's name equals it
\* ignoring case; otherwise the run has ended with the NotFound report (the
\* requested name, then the names of all fetched pipelines) and no
\* opportunity search was made.
C3_ExactCaseInsensitiveResolution ==
  all_pipelines.t = "list" =>
    IF NameMatches # {}
    THEN /\ \E i \in NameMatches : pipeline_id = all_pipelines.v[i].id
         /\ HasLine("found_pipeline")
         /\ ~HasLine("pipeline_not_found")
         /\ Done => SearchMade
    ELSE /\ NotFoundReport
         /\ pipeline_id = None
         /\ ~SearchMade

\* C3 witness: the requested name is a proper part of a fetched pipeline's
\* name and a proper extension of another's, and the run ended NotFound.
C3_Witness ==
  /\ all_pipelines.t = "list"
  /\ Len(all_pipelines.v) = 2
  /\ \E i, j \in 1..2 :
       /\ IsSubstring(Lower(pipeline_name.v), Lower(all_pipelines.v[i].name.v))
       /\ IsSubstring(Lower(all_pipelines.v[j].name.v), Lower(pipeline_name.v))
       /\ i # j
  /\ NameMatches = {}
  /\ NotFoundReport

\* what the opportunity search gave process_query
Fetched == IF ghl_search.t = "failure" THEN <<>> ELSE ghl_search.v
\* the filter stage has run
FilterRan == HasLine("filtering_for") \/ HasLine("no_specific_opportunity")
\* the opportunity_name of the interpretation and its terms
NameFilter == interp.d.opportunity_name
FilterTerms ==
  IF NameFilter.t = "list" THEN [i \in 1..Len(NameFilter.v) |-> NameFilter.v[i].v]
  ELSE <<NameFilter.v>>
OppName(o) == IF o.name.t = "absent" THEN <<>> ELSE o.name.v
\* the fetched opportunities whose lowercased name contains a lowercased term
Matching ==
  {i \in 1..Len(Fetched) :
     \E j \in 1..Len(FilterTerms) :
       IsSubstring([k \in 1..Len(FilterTerms[j]) |-> LowerChar(FilterTerms[j][k])],
                   [k \in 1..Len(OppName(Fetched[i])) |-> LowerChar(OppName(Fetched[i])[k])])}
\* kept is the opportunities at the indices K of the feed, in feed order
KeptInFeedOrder(kept, K) ==
  /\ Len(kept) = Cardinality(K)
  /\ \A j \in 1..Len(kept) : kept[j] = Fetched[Nth(K, j)]
NoMatchOutcome ==
  /\ pc = "returned"
  /\ result = Report(output_lines)
  /\ Last(output_lines) = <<"no_opportunity_match">>
FilterOutcome(present) ==
  IF present
  THEN /\ KeptInFeedOrder(opportunities.v, Matching)
       /\ (Matching = {}) <=> NoMatchOutcome
  ELSE /\ opportunities.v = Fetched
       /\ ~HasLine("no_opportunity_match")

\* C4 as stated: whenever the interpretation has an opportunity_name (a
\* string or a list of N strings) the kept opportunities are those whose
\* lowercased name contains one of the lowercased terms, in feed order, and
\* keeping nothing ends the run with "no match"; without one, all are kept.
C4_AnyNameFilter ==
  FilterRan => FilterOutcome(NameFilter.t \in {"str", "list"})

\* C4, amended: the same for a non-empty opportunity_name (a non-empty string
\* or a list of N >= 1 strings); an opportunity_name that is missing, the
\* empty string or the empty list is no filter, and all are kept.
C4_NonEmptyNameFilter ==
  FilterRan =>
    FilterOutcome(NameFilter.t \in {"str", "list"} /\ Len(NameFilter.v) > 0)

\* C4 witness: a list of two terms kept the second of two fetched
\* opportunities by its second term alone, through a difference of case.
C4_Witness ==
  /\ pc = "filtered"
  /\ NameFilter.t = "list"
  /\ Len(NameFilter.v) = 2
  /\ Len(Fetched) = 2
  /\ Matching = {2}
  /\ ~IsSubstring(FilterTerms[2], OppName(Fetched[2]))
  /\ ~IsSubstring(Lower(FilterTerms[1]), Lower(OppName(Fetched[2])))
  /\ opportunities.v = <<Fetched[2]>>

\* the render stage has run
Rendered == pc = "returned" /\ HasLine("tasks_header")
\* the task_limit of the interpretation
Limit == interp.d.task_limit
\* the tasks of an opportunity and, among them, the incomplete ones
TasksOf(o) == IF o.tasks.t = "list" THEN o.tasks.v ELSE <<>>
Incomplete(o) ==
  {x \in 1..Len(TasksOf(o)) :
     TasksOf(o)[x].completed.t = "absent" \/ TasksOf(o)[x].completed = PyBool(FALSE)}
\* the opportunities left after the filter that have an incomplete task
WithIncomplete ==
  {i \in 1..Len(opportunities.v) : Incomplete(opportunities.v[i]) # {}}
\* the header lines of the report and the lines of the section of a header
Headers == {h \in 1..Len(output_lines) : output_lines[h][1] = "opportunity"}
SectionOf(h) ==
  {x \in (h + 1)..Len(output_lines) : \A g \in Headers : g <= h \/ g > x}
\* the titles of the task lines of a section, in order
TitlesOf(h) ==
  LET T == {x \in SectionOf(h) : output_lines[x][1] = "task"}
  IN [j \in 1..Cardinality(T) |-> output_lines[Nth(T, j)][2]]
\* the titles of the first m incomplete tasks of an opportunity, in feed order
FirstIncomplete(o, m) == [j \in 1..m |-> TasksOf(o)[Nth(Incomplete(o), j)].title]
Min(a, b) == IF a < b THEN a ELSE b

\* C5: with a task limit L >= 1 the task lines of an opportunity's section are
\* the first min(L, k) of its k incomplete tasks in feed order; with no limit
\* they are all k; a completed task has no line.
C5_FirstIncompleteTasksInFeedOrder ==
  (Rendered /\ (Limit.t = "absent" \/ (Limit.t = "int" /\ Limit.v >= 1))) =>
    /\ Cardinality(Headers) = Cardinality(WithIncomplete)
    /\ \A j \in 1..Cardinality(Headers) :
         LET o == opportunities.v[Nth(WithIncomplete, j)]
             k == Cardinality(Incomplete(o))
         IN TitlesOf(Nth(Headers, j)) =
              FirstIncomplete(o, IF Limit.t = "absent" THEN k ELSE Min(Limit.v, k))

\* C5 witness: limit 1, an opportunity whose feed is a completed task and
\* then two incomplete ones, and its section shows the second task alone.
C5_Witness ==
  /\ Rendered
  /\ Limit = PyInt(1)
  /\ Len(opportunities.v) = 1
  /\ Len(TasksOf(opportunities.v[1])) = 3
  /\ Incomplete(opportunities.v[1]) = {2, 3}
  /\ Cardinality(Headers) = 1
  /\ TitlesOf(Nth(Headers, 1)) = <<PyStr(<<"t", "2">>)>>

\* C6: a report has one "Opportunity:" header per opportunity with an
\* incomplete task, in feed order, and nothing else but the lines of those
\* sections: an opportunity without tasks, or with completed tasks only, adds
\* no line.
C6_SectionsOnlyForIncomplete ==
  Rendered =>
    LET first == CHOOSE x \in 1..Len(output_lines) : output_lines[x][1] = "tasks_header"
    IN /\ Cardinality(Headers) = Cardinality(WithIncomplete)
       /\ \A j \in 1..Cardinality(Headers) :
            output_lines[Nth(Headers, j)][2] =
              GetOr(opportunities.v[Nth(WithIncomplete, j)], "name", PyStr(<<"N", "/", "A">>))
       /\ IF WithIncomplete = {}
          THEN SubSeq(output_lines, first + 1, Len(output_lines)) = <<<<"no_incomplete_tasks">>>>
          ELSE /\ first + 1 \in Headers
               /\ \A x \in (first + 1)..Len(output_lines) :
                    /\ output_lines[x][1] \in {"opportunity", "showing_up_to", "task", "due"}
                    /\ output_lines[x][1] = "showing_up_to" => (x - 1) \in Headers

\* C6 witness: two opportunities left, the first with a completed task only;
\* the report has the one section of the second.
C6_Witness ==
  /\ Rendered
  /\ Len(opportunities.v) = 2
  /\ TasksOf(opportunities.v[1]) # <<>>
  /\ Incomplete(opportunities.v[1]) = {}
  /\ WithIncomplete = {2}
  /\ Headers # {}
  /\ \A h \in Headers : output_lines[h][2] = opportunities.v[2].name

\* the stages in the order of the run
Rank(p) ==
  CASE p = "start" -> 0 [] p = "interpreted" -> 1 [] p = "resolved" -> 2
    [] p = "fetched" -> 3 [] p = "filtered" -> 4 [] OTHER -> 5
\* the run stops here with a report whose last line is k
EndsWith(k) ==
  /\ pc' = "returned"
  /\ result' = Report(output_lines')
  /\ Last(output_lines')[1] = k
  /\ calls' \in {calls, Append(calls, <<"pipelines">>)}
\* a non-empty opportunity-name filter is in effect
NameFilterOn == NameFilter.t \in {"str", "list"} /\ Len(NameFilter.v) > 0

\* C7 as stated, for the opportunity search: a failed search ends the run
\* with a report and neither the filter stage nor the render stage runs.
C7_SearchFailureEndsRun ==
  (SearchMade /\ ghl_search.t = "failure") =>
    /\ pc = "returned"
    /\ ~FilterRan
    /\ ~HasLine("tasks_header")

\* C7, amended: every step moves to a later stage; a failed pipeline-list
\* fetch, an unresolved pipeline name and an empty name-filter result each
\* end the run with their report in that step, with no later call; a failed
\* opportunity search does not end the run: the run goes on to the filter
\* stage with zero opportunities.
C7_LinearStages ==
  [][ /\ Rank(pc') > Rank(pc)
      /\ (pc = "interpreted" /\ interp.t = "dict" /\ ghl_pipelines.t = "failure")
           => EndsWith("failed_to_fetch_pipelines")
      /\ (pc = "interpreted" /\ interp.t = "dict" /\ ghl_pipelines.t = "ok"
             /\ \A i \in 1..Len(ghl_pipelines.v) :
                  ~SameIgnoringCase(ghl_pipelines.v[i].name.v, pipeline_name'.v))
           => EndsWith("available_pipelines")
      /\ (pc = "fetched" /\ NameFilterOn /\ Matching = {})
           => EndsWith("no_opportunity_match")
      /\ (pc = "resolved" /\ ghl_search.t = "failure")
           => /\ pc' = "fetched"
              /\ opportunities' = PyList(<<>>)
              /\ result' = Unset
    ]_vars

\* C7 witness: the opportunity search failed and the run went on through the
\* filter and render stages to the end.
C7_Witness ==
  /\ ghl_search.t = "failure"
  /\ SearchMade
  /\ FilterRan
  /\ Rendered

\* C8 as stated: the pipeline resolved and the search gave zero
\* opportunities, and the report ends with "No incomplete tasks found".
C8_EmptySearchAnyFilter ==
  (SearchMade /\ ghl_search = Ok(<<>>) /\ pc = "returned") =>
    Last(output_lines) = <<"no_incomplete_tasks">>

\* C8, amended: the pipeline resolved and the search gave zero opportunities;
\* without a non-empty opportunity-name filter the report ends with "No
\* incomplete tasks found", with one it ends with "Could not find any
\* opportunity matching your criteria."; with or without a task limit.
C8_EmptySearchByFilter ==
  (SearchMade /\ ghl_search = Ok(<<>>) /\ pc = "returned") =>
    /\ result = Report(output_lines)
    /\ Last(output_lines) =
         IF NameFilterOn THEN <<"no_opportunity_match">> ELSE <<"no_incomplete_tasks">>

\* C8 witness: zero opportunities, a task limit and no name filter, and the
\* report ends with the "No incomplete tasks found" line.
C8_Witness ==
  /\ SearchMade
  /\ ghl_search = Ok(<<>>)
  /\ pc = "returned"
  /\ Limit.t = "int"
  /\ NameFilter.t = "absent"
  /\ Last(output_lines) = <<"no_incomplete_tasks">>

\* the model answered {} and nothing else, fenced or not
AnsweredEmptyObject ==
  /\ gemini.get_model = "ok"
  /\ gemini.generate.t = "ok"
  /\ gemini.generate.v \in { <<Obj(EmptyDict)>>, Fenced(EmptyDict),
                              <<Fence, Obj(EmptyDict), Fence>>, <<Ws, Obj(EmptyDict), Ws>> }
\* the number of incomplete tasks of the first n fetched opportunities
RECURSIVE IncompleteUpTo(_)
IncompleteUpTo(n) ==
  IF n = 0 THEN 0 ELSE Cardinality(Incomplete(Fetched[n])) + IncompleteUpTo(n - 1)

\* C9: when the model answers {}, the default pipeline name is looked up,
\* the search is made with status "open", every fetched opportunity is
\* considered and every incomplete task of theirs has its line.
C9_EmptyObjectUsesDefaults ==
  (user_query # <<>> /\ AnsweredEmptyObject /\ pc # "start") =>
    /\ pc # "raised"
    /\ interp = PyDict(EmptyDict)
    /\ pc # "interpreted" => pipeline_name = PyStr(DEFAULT_PIPELINE_NAME)
    /\ SearchMade => calls[3] = <<"search", pipeline_id, PyStr(Open)>>
    /\ pc \in {"fetched", "filtered"} \/ Rendered => opportunities.v = Fetched
    /\ FilterRan => HasLine("no_specific_opportunity")
    /\ Rendered =>
         /\ ~HasLine("showing_up_to")
         /\ Cardinality({x \in 1..Len(output_lines) : output_lines[x][1] = "task"})
              = IncompleteUpTo(Len(Fetched))

\* C9 witness: the model answered {} in a ```json fence and the report shows
\* all three incomplete tasks of the one fetched opportunity.
C9_Witness ==
  /\ gemini.generate = Ok(Fenced(EmptyDict))
  /\ Rendered
  /\ Len(Fetched) = 1
  /\ Cardinality(Incomplete(Fetched[1])) = 3
  /\ Cardinality({x \in 1..Len(output_lines) : output_lines[x][1] = "task"}) = 3

\* C10: a failed pipeline-list fetch gives None, not the empty list of a
\* fetch without pipelines, and the two runs end with different reports:
\* "Failed to fetch pipelines." and the NotFound report with no available
\* name; a failed opportunity search gives the same empty list as a search
\* without opportunities.
C10_FailureDistinguishedForPipelinesOnly ==
  /\ (all_pipelines # Unset /\ ghl_pipelines = Failure) =>
       /\ all_pipelines = None
       /\ pc = "returned"
       /\ result = Report(output_lines)
       /\ Last(output_lines) = <<"failed_to_fetch_pipelines">>
  /\ (all_pipelines # Unset /\ ghl_pipelines = Ok(<<>>)) =>
       /\ all_pipelines = PyList(<<>>)
       /\ NotFoundReport
       /\ Last(output_lines) = <<"available_pipelines", PyList(<<>>)>>
  /\ (pc = "fetched" /\ ghl_search \in {Failure, Ok(<<>>)}) =>
       opportunities = PyList(<<>>)

\* C10 witness: the opportunity search failed and process_query holds an
\* empty list of opportunities.
C10_Witness ==
  /\ pc = "fetched"
  /\ ghl_search = Failure
  /\ opportunities = PyList(<<>>)

\* the kinds of the outbound calls made so far, in order
CallKinds == [i \in 1..Len(calls) |-> calls[i][1]]
CallOrder == <<"interpret", "pipelines", "search">>

\* C11: the outbound calls are made in the order model interpretation,
\* pipeline list, opportunity search, each at most once; the search is made
\* only once the pipeline list was fetched and the name resolved, with the id
\* of a fetched pipeline of that name as its argument; an empty query makes
\* no call and returns the report "No query provided.".
C11_CallsInOrderAtMostOnce ==
  /\ Len(calls) <= 3
  /\ CallKinds = SubSeq(CallOrder, 1, Len(calls))
  /\ SearchMade =>
       /\ ghl_pipelines.t = "ok"
       /\ all_pipelines = PyList(ghl_pipelines.v)
       /\ \E i \in NameMatches : calls[3][2] = all_pipelines.v[i].id
       /\ calls[3][2] = pipeline_id
  /\ user_query = <<>> =>
       /\ calls = <<>>
       /\ pc = "returned" => result = Report(<<<<"no_query">>>>)
       /\ pc \in {"start", "returned"}

\* C11 witness: the run ended after its three calls, the search made with
\* the id of the second of two fetched pipelines.
C11_Witness ==
  /\ pc = "returned"
  /\ CallKinds = CallOrder
  /\ Len(ghl_pipelines.v) = 2
  /\ NameMatches = {2}
  /\ calls[3][2] = ghl_pipelines.v[2].id

====
